---- MODULE Spec2Model ----
(***************************************************************************)
(* Token lifecycle of anemoi.training.diagnostics.mlflow.auth.TokenAuth:   *)
(* one TokenAuth instance, the persisted mlflow-token.json record, the     *)
(* MLFLOW_TRACKING_TOKEN environment variable, the wall clock and a token  *)
(* server whose replies are chosen nondeterministically.                   *)
(*                                                                         *)
(* Time is counted in clock ticks of 1/Unit second, so that time.time()    *)
(* has a fractional part and int() truncates.  A call of login() or        *)
(* authenticate() is one step taken at one instant of the clock.           *)
(* A Python dict is a function from its keys; None is the string "None".   *)
(***************************************************************************)
EXTENDS Integers, Sequences, FiniteSets, TLC

VARIABLES
    enabled,          \* self.enabled
    refresh_token,    \* self.refresh_token
    refresh_expires,  \* self.refresh_expires
    access_token,     \* self.access_token
    access_expires,   \* self.access_expires
    environ,          \* os.environ.get("MLFLOW_TRACKING_TOKEN")
    config,           \* content of mlflow-token.json
    now,              \* time.time()
    call              \* the public call that has just returned, if any

vars == <<enabled, refresh_token, refresh_expires, access_token,
          access_expires, environ, config, now, call>>

-----------------------------------------------------------------------------
(* Python values *)

None == "None"

EmptyDict == [k \in {} |-> None]

\* dict.get(key, default)
Get(d, k, default) == IF k \in DOMAIN d THEN d[k] ELSE default

\* truth value of an optional string: None and "" are false
Truthy(x) == x \notin {None, ""}

-----------------------------------------------------------------------------
(* Time *)

\* ticks per second
Unit == 10

\* int(t) for a time t in ticks: the whole seconds of t, in ticks
int(t) == (t \div Unit) * Unit

refresh_expire_days == 29

\* self.refresh_expire_days * 24 * 60 * 60, in ticks
RefreshLifetime == refresh_expire_days * 24 * 60 * 60 * Unit

\* the clock at construction: 100.5 s
T0 == 100 * Unit + 5

\* number of times the clock advances
MaxTicks == 2

\* server-declared lifetimes of an access token, in seconds
ExpiresIns == {0, 1000}

\* the clock advances by half a second or by the 0.7 * 1000 s an access
\* token is kept
TickSteps == {5, 7 * 100 * Unit}

TimePoints ==
    {T0 + a * 5 + b * (7 * 100 * Unit) :
        <<a, b>> \in {t \in (0..MaxTicks) \X (0..MaxTicks) :
                        t[1] + t[2] <= MaxTicks}}

-----------------------------------------------------------------------------
(* The token server *)

ServerRefreshTokens == {"r1", "r2"}
ServerAccessTokens == {"a1"}
Users == {"alice", "bob"}
Passwords == {"secret"}

ErrorObject == [error_description |-> "Invalid credentials"]

\* a str holding the JSON text of the object o
JsonString(o) == [json_text_of |-> o]

isinstance_str(x) == DOMAIN x = {"json_text_of"}

json_loads(s) == s.json_text_of

\* the "response" member of a reply whose status is OK
Payloads ==
    {EmptyDict, [refresh_token |-> ""], [expires_in |-> 1000],
     [refresh_token |-> "r1", access_token |-> "a1", expires_in |-> 1000]}
    \cup {[refresh_token |-> r] : r \in ServerRefreshTokens}
    \cup {[access_token |-> a, expires_in |-> e] :
            a \in ServerAccessTokens, e \in ExpiresIns}

\* the JSON body of a 2xx reply
Bodies ==
    {[status |-> "ERROR", response |-> ErrorObject],
     [status |-> "ERROR", response |-> JsonString(ErrorObject)],
     [status |-> "OK"]}
    \cup {[status |-> "OK", response |-> p] : p \in Payloads}

\* what requests.post() and raise_for_status() can do
Replies ==
    {[http |-> "ConnectionError"], [http |-> "HTTPError"]}
    \cup {[http |-> "2xx", json |-> b] : b \in Bodies}

-----------------------------------------------------------------------------
(* The request helper *)

\* the exception is logged and an empty mapping returned
Raise_swallowed(exc, sent, log) ==
    [raised |-> None, value |-> EmptyDict, sent |-> sent, log |-> log]

Raise(exc, sent, log) ==
    [raised |-> exc, value |-> EmptyDict, sent |-> sent, log |-> log]

Return(v, sent, log) ==
    [raised |-> None, value |-> v, sent |-> sent, log |-> log]

\* the error payload is used as it arrives: a str has no get()
_request_object_only(path, payload, reply) ==
    LET sent == <<[path |-> path, payload |-> payload, reply |-> reply]>> IN
    IF reply.http # "2xx"
    THEN Raise(reply.http, sent, <<"error">>)
    ELSE LET response_json == reply.json IN
         IF "response" \notin DOMAIN response_json
         THEN Raise("KeyError", sent, <<"error">>)
         ELSE IF Get(response_json, "status", "") = "ERROR"
         THEN IF isinstance_str(response_json.response)
              THEN Raise("AttributeError", sent, <<"error">>)
              ELSE Return(EmptyDict, sent,
                          <<Get(response_json.response, "error_description",
                                "Error acquiring token.")>>)
         ELSE Return(response_json.response, sent, <<>>)

\* TokenAuth._request: one POST of payload to {url}/{path}, answered by reply
_request(path, payload, reply) ==
    LET sent == <<[path |-> path, payload |-> payload, reply |-> reply]>> IN
    IF reply.http # "2xx"
    THEN Raise(reply.http, sent, <<"error">>)
    ELSE LET response_json == reply.json IN
         IF "response" \notin DOMAIN response_json
         THEN Raise("KeyError", sent, <<"error">>)
         ELSE IF Get(response_json, "status", "") = "ERROR"
         THEN LET error == IF isinstance_str(response_json.response)
                           THEN json_loads(response_json.response)
                           ELSE response_json.response
              IN  Return(EmptyDict, sent,
                         <<Get(error, "error_description", "Error acquiring token.")>>)
         ELSE Return(response_json.response, sent, <<>>)

\* TokenAuth._get_refresh_token
_get_refresh_token(token, username, password, reply) ==
    LET path == IF Truthy(token) THEN "refreshtoken" ELSE "newtoken"
        payload == IF Truthy(token)
                   THEN [refresh_token |-> token]
                   ELSE [username |-> username, password |-> password]
        response == _request(path, payload, reply)
    IN  [raised |-> response.raised,
         token  |-> Get(response.value, "refresh_token", None),
         sent   |-> response.sent,
         log    |-> response.log]

\* the whole of expires_in, without the buffer
Buffered_unbuffered(expires_in) == expires_in * Unit

\* 0.7 * expires_in seconds, in ticks
Buffered(expires_in) == (expires_in * 7 * Unit) \div 10

\* TokenAuth._get_access_token
_get_access_token(reply) ==
    LET payload == [refresh_token |-> refresh_token]
        response == _request("refreshtoken", payload, reply)
    IN  IF response.raised # None
        THEN [raised |-> response.raised, token |-> None, expires |-> 0,
              sent |-> response.sent, log |-> response.log]
        ELSE IF "expires_in" \notin DOMAIN response.value
        THEN \* None * 0.7
             [raised |-> "TypeError", token |-> None, expires |-> 0,
              sent |-> response.sent, log |-> response.log]
        ELSE [raised |-> None,
              token |-> Get(response.value, "access_token", None),
              expires |-> now + Buffered(response.value.expires_in),
              sent |-> response.sent, log |-> response.log]

\* the access token is written to the file as well
_save_config_with_access(token) ==
    [refresh_token |-> token, refresh_expires |-> int(now + RefreshLifetime),
     access_token |-> access_token]

\* TokenAuth._save_config: the record written to mlflow-token.json
_save_config(token) ==
    [refresh_token |-> token, refresh_expires |-> int(now + RefreshLifetime)]

-----------------------------------------------------------------------------
(* The public operations *)

\* the fields a call can change, as they are now
Snapshot ==
    [refresh_token |-> refresh_token, refresh_expires |-> refresh_expires,
     access_token |-> access_token, access_expires |-> access_expires,
     environ |-> environ, config |-> config]

\* a call that ends with result and changes nothing
Unchanged(result, requests, prompts) ==
    [result |-> result, requests |-> requests, prompts |-> prompts,
     refresh_token |-> refresh_token, access_token |-> access_token,
     access_expires |-> access_expires, environ |-> environ, config |-> config]

FailedToLogIn == "RuntimeError: Failed to log in. Please try again."

NotLoggedIn == "RuntimeError: You are not logged in to MLflow. Please log in first."

\* force_credentials is not looked at
silent_renewal_unforced(force_credentials) ==
    Truthy(refresh_token) /\ refresh_expires > now

\* login, line 85: is the current refresh token exchanged for a new one?
silent_renewal(force_credentials) ==
    ~force_credentials /\ Truthy(refresh_token) /\ refresh_expires > now

\* login, lines 94-98: a new refresh token was acquired
login_store(new_refresh_token, requests, prompts) ==
    [result |-> "return", requests |-> requests, prompts |-> prompts,
     refresh_token |-> new_refresh_token, access_token |-> access_token,
     access_expires |-> access_expires, environ |-> environ,
     config |-> _save_config(new_refresh_token)]

\* self.refresh_token is assigned before new_refresh_token is tested
login_raise_stored(new_refresh_token, requests, prompts) ==
    [Unchanged(FailedToLogIn, requests, prompts)
        EXCEPT !.refresh_token = new_refresh_token]

\* login, lines 99-100: no refresh token was acquired
login_raise(new_refresh_token, requests, prompts) ==
    Unchanged(FailedToLogIn, requests, prompts)

\* the operator is asked whatever the silent renewal gave
login_prompts_always(force_credentials, reply1) == TRUE

\* login, lines 85-88: the operator is asked for credentials
login_prompts(force_credentials, reply1) ==
    LET first == _get_refresh_token(refresh_token, None, None, reply1) IN
    IF silent_renewal(force_credentials)
    THEN first.raised = None /\ ~Truthy(first.token)
    ELSE TRUE

\* login, lines 82-100
login_enabled(force_credentials, username, password, reply1, reply2) ==
    LET silent == silent_renewal(force_credentials)
        first == _get_refresh_token(refresh_token, None, None, reply1)
        sent1 == IF silent THEN first.sent ELSE <<>>
        new1 == IF silent THEN first.token ELSE None
    IN  IF silent /\ first.raised # None
        THEN Unchanged(first.raised, sent1, <<>>)
        ELSE IF ~login_prompts(force_credentials, reply1)
        THEN login_store(new1, sent1, <<>>)
        ELSE LET prompts == <<[username |-> username, password |-> password]>>
                 second == _get_refresh_token(None, username, password, reply2)
                 sent2 == sent1 \o second.sent
             IN  IF second.raised # None
                 THEN Unchanged(second.raised, sent2, prompts)
                 ELSE IF Truthy(second.token)
                 THEN login_store(second.token, sent2, prompts)
                 ELSE login_raise(second.token, sent2, prompts)

\* self.enabled is not looked at
login_outcome_unguarded(force_credentials, username, password, reply1, reply2) ==
    login_enabled(force_credentials, username, password, reply1, reply2)

\* TokenAuth.login
login_outcome(force_credentials, username, password, reply1, reply2) ==
    IF ~enabled
    THEN Unchanged("return", <<>>, <<>>)
    ELSE login_enabled(force_credentials, username, password, reply1, reply2)

\* the access expiry is compared with the refresh expiry instead of the clock
access_valid_misread == access_expires > refresh_expires

\* authenticate, line 119: the access token is still good
access_valid == access_expires > now

\* authenticate, line 122: there is no usable refresh token
not_logged_in == ~Truthy(refresh_token) \/ refresh_expires < now

\* authenticate, lines 125-128
authenticate_refresh(reply) ==
    LET got == _get_access_token(reply) IN
    IF got.raised # None
    THEN Unchanged(got.raised, got.sent, <<>>)
    ELSE [result |-> IF got.token = None THEN "TypeError" ELSE "return",
          requests |-> got.sent, prompts |-> <<>>,
          refresh_token |-> refresh_token, access_token |-> got.token,
          access_expires |-> got.expires,
          \* os.environ[...] = None raises TypeError
          environ |-> IF got.token = None THEN environ ELSE got.token,
          config |-> config]

\* TokenAuth.authenticate
authenticate_outcome(reply) ==
    IF ~enabled THEN Unchanged("return", <<>>, <<>>)
    ELSE IF access_valid THEN Unchanged("return", <<>>, <<>>)
    ELSE IF not_logged_in THEN Unchanged(NotLoggedIn, <<>>, <<>>)
    ELSE authenticate_refresh(reply)

\* the caller makes a call, which returns or raises: its effects and what
\* was observed of it
Finish(op, force_credentials, o) ==
    /\ call.op = "none"
    /\ refresh_token' = o.refresh_token
    /\ access_token' = o.access_token
    /\ access_expires' = o.access_expires
    /\ environ' = o.environ
    /\ config' = o.config
    /\ call' = [op |-> op, force_credentials |-> force_credentials,
                result |-> o.result, requests |-> o.requests,
                prompts |-> o.prompts, pre |-> Snapshot]
    /\ UNCHANGED <<enabled, refresh_expires, now>>

Idle ==
    [op |-> "none", force_credentials |-> FALSE, result |-> "none",
     requests |-> <<>>, prompts |-> <<>>, pre |-> Snapshot]

\* the replies the call can consume: none when no request is sent
RepliesIf(asked) == IF asked THEN Replies ELSE {[http |-> "ConnectionError"]}

login ==
    \E force_credentials \in BOOLEAN, username \in Users, password \in Passwords :
    \E reply1 \in RepliesIf(enabled /\ silent_renewal(force_credentials)) :
    \E reply2 \in RepliesIf(enabled /\ login_prompts(force_credentials, reply1)) :
        Finish("login", force_credentials,
               login_outcome(force_credentials, username, password, reply1, reply2))

authenticate ==
    \E reply \in RepliesIf(enabled /\ ~access_valid /\ ~not_logged_in) :
        Finish("authenticate", FALSE, authenticate_outcome(reply))

\* the caller has seen the outcome of its call and goes on
Continue ==
    /\ call.op # "none"
    /\ call' = Idle
    /\ UNCHANGED <<enabled, refresh_token, refresh_expires, access_token,
                   access_expires, environ, config, now>>

\* time passes between two calls
Tick ==
    \E d \in TickSteps :
        /\ call.op = "none"
        /\ now + d \in TimePoints
        /\ now' = now + d
        /\ call' = Idle
        /\ UNCHANGED <<enabled, refresh_token, refresh_expires, access_token,
                       access_expires, environ, config>>

\* refresh_expires of a record left by an earlier run: expired, about to
\* expire, freshly written
InitExpires == {int(T0) - Unit, int(T0) + Unit, int(T0 + RefreshLifetime)}

\* what load_config("mlflow-token.json") can find
InitConfigs ==
    {EmptyDict}
    \cup {[refresh_token |-> "r0", refresh_expires |-> x] : x \in InitExpires}

\* TokenAuth.__init__
Init ==
    /\ enabled \in BOOLEAN
    /\ config \in InitConfigs
    /\ refresh_token = Get(config, "refresh_token", None)
    /\ refresh_expires = Get(config, "refresh_expires", 0)
    /\ access_token = None
    /\ access_expires = 0
    /\ environ = None
    /\ now = T0
    /\ call = [op |-> "none", force_credentials |-> FALSE, result |-> "none",
               requests |-> <<>>, prompts |-> <<>>,
               pre |-> [refresh_token |-> Get(config, "refresh_token", None),
                        refresh_expires |-> Get(config, "refresh_expires", 0),
                        access_token |-> None, access_expires |-> 0,
                        environ |-> None, config |-> config]]

Next == login \/ authenticate \/ Continue \/ Tick

Spec == Init /\ [][Next]_vars

-----------------------------------------------------------------------------
(* What a call observed *)

\* the reply is a 2xx reply whose status is not "ERROR" and that has a payload
IsOK(reply) ==
    /\ reply.http = "2xx"
    /\ "response" \in DOMAIN reply.json
    /\ Get(reply.json, "status", "") # "ERROR"

\* the reply is a 2xx reply whose status is "ERROR"
IsSoftError(reply) ==
    /\ reply.http = "2xx"
    /\ "response" \in DOMAIN reply.json
    /\ Get(reply.json, "status", "") = "ERROR"

\* the string the reply carries under key, None if it carries none
Carried(reply, key) ==
    IF IsOK(reply) THEN Get(reply.json.response, key, None) ELSE None

LastRequest == call.requests[Len(call.requests)]

\* a soft rejection whose error payload is a JSON object
SoftObject ==
    [http |-> "2xx", json |-> [status |-> "ERROR", response |-> ErrorObject]]

\* a soft rejection whose error payload is the JSON text of that object
SoftString ==
    [http |-> "2xx",
     json |-> [status |-> "ERROR", response |-> JsonString(ErrorObject)]]

\* what a call did, without the replies it was given
Effects(o) ==
    [result |-> o.result, prompts |-> o.prompts,
     posts |-> [i \in 1..Len(o.requests) |->
                    [path |-> o.requests[i].path,
                     payload |-> o.requests[i].payload]],
     refresh_token |-> o.refresh_token, access_token |-> o.access_token,
     access_expires |-> o.access_expires, environ |-> o.environ,
     config |-> o.config]

\* the exceptions that come out of the request helper
RequestErrors == {"ConnectionError", "HTTPError", "KeyError", "AttributeError"}

\* the reply makes the request helper raise: a failed transport, a status
\* that is not 2xx, or a body without "response"
IsFailure(reply) ==
    reply.http # "2xx" \/ "response" \notin DOMAIN reply.json

\* the exception the request helper raises on such a reply
FailureOf(reply) == IF reply.http # "2xx" THEN reply.http ELSE "KeyError"

\* the positions of the requests of the call that went to path
RequestsTo(path) ==
    {i \in 1..Len(call.requests) : call.requests[i].path = path}

\* what a newly constructed TokenAuth reads from mlflow-token.json
Reloaded ==
    [refresh_token |-> Get(config, "refresh_token", None),
     refresh_expires |-> Get(config, "refresh_expires", 0)]

-----------------------------------------------------------------------------
(* Claims *)

\* C1: after every login() that obtained a token and returned, whether by
\* silent renewal or by prompting, the refresh token in memory is the new
\* token, the refresh expiry in memory is now + refresh_expire_days * 86400
\* (to the whole second), and the persisted record holds that same pair.
C1_LoginStoresTokenAndExpiry ==
    (call.op = "login" /\ call.result = "return" /\ call.requests # <<>>) =>
        /\ refresh_token = Carried(LastRequest.reply, "refresh_token")
        /\ refresh_expires \in {now + RefreshLifetime, int(now + RefreshLifetime)}
        /\ config = [refresh_token |-> refresh_token,
                     refresh_expires |-> int(refresh_expires)]

\* C2: in every reachable state the refresh token in memory is absent or its
\* expiry in memory is not zero.
C2_TokenHasExpiry ==
    refresh_token = None \/ refresh_expires # 0

\* C3: whenever the persisted record holds a refresh token whose
\* refresh_expires is in the future, a login() without force_credentials,
\* against a server that answers the refresh endpoint with a new refresh
\* token, does not prompt, sends nothing to the newtoken endpoint and persists
\* the new token with expiry now + refresh_expire_days * 86400.
C3_SilentRenewalOfPersistedToken ==
    (/\ call.op = "login" /\ enabled /\ ~call.force_credentials
     /\ "refresh_token" \in DOMAIN call.pre.config
     /\ call.pre.config.refresh_expires > now
     /\ \A i \in 1..Len(call.requests) :
            call.requests[i].path = "refreshtoken" =>
                Truthy(Carried(call.requests[i].reply, "refresh_token")))
    =>
        /\ call.prompts = <<>>
        /\ \A i \in 1..Len(call.requests) : call.requests[i].path # "newtoken"
        /\ call.requests # <<>>
        /\ config = [refresh_token |-> Carried(LastRequest.reply, "refresh_token"),
                     refresh_expires |-> int(now + RefreshLifetime)]

\* C4: when login() fails (no token on either path, a transport error or a
\* protocol error) the persisted record, the refresh token in memory and the
\* refresh expiry in memory are what they were before the call.
C4_FailedLoginChangesNothing ==
    (call.op = "login" /\ call.result # "return") =>
        /\ config = call.pre.config
        /\ refresh_token = call.pre.refresh_token
        /\ refresh_expires = call.pre.refresh_expires

\* C4 witness: with a record persisted, a login was rejected on the refresh
\* endpoint and again on the newtoken endpoint.
C4_Witness ==
    /\ call.op = "login" /\ call.result = FailedToLogIn
    /\ Len(call.requests) = 2
    /\ call.pre.config # EmptyDict

\* C5: when enabled and no valid access token is in memory (none present, or
\* its expiry not in the future), authenticate() with the refresh token absent
\* or its expiry in the past fails with "You are not logged in", sends no
\* request and leaves access token, access expiry, environment variable and
\* persisted record unchanged.
C5_NotLoggedIn ==
    (/\ call.op = "authenticate" /\ enabled
     /\ ~(call.pre.access_token # None /\ call.pre.access_expires > now)
     /\ (call.pre.refresh_token = None \/ call.pre.refresh_expires < now))
    =>
        /\ call.result = NotLoggedIn
        /\ call.requests = <<>>
        /\ access_token = call.pre.access_token
        /\ access_expires = call.pre.access_expires
        /\ environ = call.pre.environ
        /\ config = call.pre.config

\* C6: when authenticate() takes the renewal path and the refresh endpoint
\* answers with access_token T and expires_in E, then on return the access
\* token is T, access_expires is now + 0.7 * E and the environment variable is
\* T; exactly one request was sent, to refreshtoken, with the refresh token
\* that is in memory.
C6_RenewalStoresAccessToken ==
    (/\ call.op = "authenticate" /\ call.requests # <<>>
     /\ IsOK(call.requests[1].reply)
     /\ {"access_token", "expires_in"}
            \subseteq DOMAIN call.requests[1].reply.json.response)
    =>
        LET response == call.requests[1].reply.json.response IN
        /\ call.result = "return"
        /\ access_token = response.access_token
        /\ 10 * (access_expires - now) = 7 * response.expires_in * Unit
        /\ environ = response.access_token
        /\ Len(call.requests) = 1
        /\ call.requests[1].path = "refreshtoken"
        /\ call.requests[1].payload = [refresh_token |-> refresh_token]
        /\ refresh_token = call.pre.refresh_token

\* C6 witness: a renewal answered with expires_in = 1000 left a token good
\* for 700 s.
C6_Witness ==
    /\ call.op = "authenticate" /\ call.result = "return"
    /\ Len(call.requests) = 1
    /\ call.pre.access_token = None
    /\ access_token = "a1" /\ environ = "a1"
    /\ access_expires = now + 700 * Unit

\* C7: when the server answers authenticate()'s request with a 2xx reply
\* whose status is "ERROR", authenticate() fails with one of the RuntimeErrors
\* of the public operations and not with any other exception, and access
\* token, access expiry and environment variable are unchanged.
C7_SoftRejectionIsHardError ==
    (/\ call.op = "authenticate" /\ call.requests # <<>>
     /\ IsSoftError(call.requests[1].reply))
    =>
        /\ call.result \in {NotLoggedIn, FailedToLogIn}
        /\ access_token = call.pre.access_token
        /\ access_expires = call.pre.access_expires
        /\ environ = call.pre.environ

\* C8: with enabled = False no call sends a request or prompts, every call
\* returns normally, and refresh token, refresh expiry, access token, access
\* expiry, environment variable and persisted record stay as construction
\* left them.
C8_DisabledIsInert ==
    ~enabled =>
        /\ call.requests = <<>> /\ call.prompts = <<>>
        /\ call.result \in {"none", "return"}
        /\ Snapshot = call.pre
        /\ refresh_token = Get(config, "refresh_token", None)
        /\ refresh_expires = Get(config, "refresh_expires", 0)
        /\ access_token = None /\ access_expires = 0 /\ environ = None

\* C8 witness: a disabled instance with a persisted record was asked to log
\* in with force_credentials, after some time had passed.
C8_Witness ==
    /\ ~enabled /\ call.op = "login" /\ call.force_credentials
    /\ config # EmptyDict /\ now > T0

\* C9: authenticate() called while an access token is in memory and
\* access_expires > now sends nothing, returns normally and changes nothing,
\* even when the refresh token is absent or expired.
C9_FastPath ==
    (/\ call.op = "authenticate"
     /\ call.pre.access_token # None /\ call.pre.access_expires > now)
    =>
        /\ call.requests = <<>>
        /\ call.result = "return"
        /\ Snapshot = call.pre

\* C9 witness: the fast path was taken by an enabled instance whose refresh
\* token had expired.
C9_Witness ==
    /\ call.op = "authenticate" /\ enabled
    /\ call.pre.access_token # None /\ call.pre.access_expires > now
    /\ call.pre.refresh_expires < now

\* C10: an enabled login(force_credentials = True) prompts once and sends
\* exactly one request, to newtoken, with the credentials entered; it sends
\* nothing to refreshtoken, whatever refresh token is in memory.
C10_ForcedLoginPrompts ==
    (call.op = "login" /\ enabled /\ call.force_credentials) =>
        /\ Len(call.prompts) = 1
        /\ Len(call.requests) = 1
        /\ call.requests[1].path = "newtoken"
        /\ call.requests[1].payload = call.prompts[1]

\* C10 witness: a forced login by "bob" while an unexpired refresh token was
\* in memory.
C10_Witness ==
    /\ call.op = "login" /\ enabled /\ call.force_credentials
    /\ Truthy(call.pre.refresh_token) /\ call.pre.refresh_expires > now
    /\ call.prompts = <<[username |-> "bob", password |-> "secret"]>>

\* C11: the persisted record never has keys other than refresh_token and
\* refresh_expires, and authenticate() never writes it and never changes the
\* refresh token or the refresh expiry in memory.
C11_PersistedOnlyRefresh ==
    /\ DOMAIN config \subseteq {"refresh_token", "refresh_expires"}
    /\ call.op = "authenticate" =>
        /\ config = call.pre.config
        /\ refresh_token = call.pre.refresh_token
        /\ refresh_expires = call.pre.refresh_expires

\* C11 witness: on an instance that logged in and persisted its token,
\* authenticate() stored and published an access token.
C11_Witness ==
    /\ call.op = "authenticate" /\ call.result = "return"
    /\ call.requests # <<>>
    /\ access_token # call.pre.access_token
    /\ refresh_token \in ServerRefreshTokens
    /\ config # EmptyDict

\* C12: whenever authenticate() stores an access token, the access_expires
\* stored with it is strictly greater than the time of the call, whatever
\* expires_in the server returned.
C12_StoredExpiryInFuture ==
    (/\ call.op = "authenticate" /\ call.requests # <<>>
     /\ call.result = "return" /\ access_token # None)
    => access_expires > now

\* C13: in every reachable state, what a newly constructed TokenAuth would
\* load from the persisted record is the pair (refresh token, refresh expiry)
\* held in memory.
C13_RoundTrip ==
    /\ Reloaded.refresh_token = refresh_token
    /\ Reloaded.refresh_expires = refresh_expires

\* C14: for a 2xx reply with status "ERROR" the request helper does the same
\* whether the error payload is a JSON object or the JSON text of that object:
\* it does not raise, returns an empty mapping and logs the same description;
\* so from any state login() and authenticate() have the same effects in the
\* two cases, and a soft rejection observed in a call never left it as an
\* exception of the helper.
C14_ErrorPayloadEncodings ==
    /\ \A path \in {"refreshtoken", "newtoken"} :
        LET a == _request(path, EmptyDict, SoftObject)
            b == _request(path, EmptyDict, SoftString)
        IN  /\ a.raised = None /\ b.raised = None
            /\ a.value = EmptyDict /\ b.value = EmptyDict
            /\ a.log = b.log
    /\ call.op = "none" =>
        /\ Effects(authenticate_outcome(SoftObject))
            = Effects(authenticate_outcome(SoftString))
        /\ \A f \in BOOLEAN, u \in Users, p \in Passwords, r \in Replies :
            /\ Effects(login_outcome(f, u, p, SoftObject, r))
                = Effects(login_outcome(f, u, p, SoftString, r))
            /\ Effects(login_outcome(f, u, p, r, SoftObject))
                = Effects(login_outcome(f, u, p, r, SoftString))
    /\ (call.requests # <<>> /\ IsSoftError(LastRequest.reply)) =>
        /\ call.result \notin RequestErrors
        /\ Snapshot = call.pre

\* C14 witness: a login was rejected on the refresh endpoint with the error
\* as JSON text and on the newtoken endpoint with the error as an object.
C14_Witness ==
    /\ call.op = "login" /\ Len(call.requests) = 2
    /\ call.requests[1].reply = SoftString
    /\ call.requests[2].reply = SoftObject
    /\ call.result = FailedToLogIn

\* C15: every enabled login() sends one or two requests, at most one to
\* refreshtoken and at most one to newtoken, the refreshtoken one first; it
\* prompts exactly when it sends to newtoken, and only after the refresh
\* endpoint answered without a token; a soft rejection of the silent renewal
\* is followed by the prompt and a newtoken request, and if that too yields no
\* token login fails with "Failed to log in".  Nothing is cached: a login
\* after a successful login sends a request too.
C15_LoginRequests ==
    (call.op = "login" /\ enabled) =>
        /\ Len(call.requests) \in {1, 2}
        /\ Cardinality(RequestsTo("refreshtoken")) <= 1
        /\ Cardinality(RequestsTo("newtoken")) <= 1
        /\ \A i \in RequestsTo("refreshtoken"), j \in RequestsTo("newtoken") : i < j
        /\ Len(call.prompts) = Cardinality(RequestsTo("newtoken"))
        /\ Len(call.requests) = 2 =>
            /\ ~IsFailure(call.requests[1].reply)
            /\ ~Truthy(Carried(call.requests[1].reply, "refresh_token"))
        /\ (call.requests[1].path = "refreshtoken"
                /\ IsSoftError(call.requests[1].reply)) =>
            /\ Len(call.requests) = 2
            /\ call.requests[2].path = "newtoken"
            /\ call.requests[2].payload = call.prompts[1]
        /\ (LastRequest.path = "newtoken" /\ ~IsFailure(LastRequest.reply)
                /\ ~Truthy(Carried(LastRequest.reply, "refresh_token"))) =>
            call.result = FailedToLogIn

\* C15 witness: right after a login that succeeded by silent renewal, a
\* second login was rejected on the refresh endpoint, prompted, and was
\* given a token on the newtoken endpoint.
C15_Witness ==
    /\ call.op = "login" /\ enabled /\ now = T0
    /\ call.pre.refresh_token \in ServerRefreshTokens
    /\ Len(call.requests) = 2
    /\ IsSoftError(call.requests[1].reply)
    /\ call.result = "return"
    /\ refresh_token # call.pre.refresh_token

\* C16: a reply that makes the request helper raise ends the call with that
\* exception: it is the last request of the call, no request is repeated, and
\* nothing is changed; in login's silent renewal it leaves no prompt and no
\* newtoken request, in authenticate exactly one request was sent.
C16_FailuresPropagate ==
    \A i \in 1..Len(call.requests) :
        IsFailure(call.requests[i].reply) =>
            /\ i = Len(call.requests)
            /\ call.result = FailureOf(call.requests[i].reply)
            /\ \A j \in 1..Len(call.requests) :
                    j # i => call.requests[j].path # call.requests[i].path
            /\ Snapshot = call.pre
            /\ (call.op = "login" /\ call.requests[i].path = "refreshtoken") =>
                    (call.prompts = <<>> /\ Len(call.requests) = 1)
            /\ call.op = "authenticate" => Len(call.requests) = 1

\* C16 witness: the silent renewal of a login got a non-2xx answer.
C16_Witness ==
    /\ call.op = "login" /\ call.result = "HTTPError"
    /\ call.requests # <<>> /\ call.requests[1].path = "refreshtoken"
    /\ call.prompts = <<>>

\* C17: once login() has returned successfully on the instance, an
\* authenticate() made before the expiry that login persisted (the time of
\* the login + refresh_expire_days * 86400) never fails with "You are not
\* logged in".
C17_LoginEnablesAuthenticate ==
    (/\ call.op = "authenticate" /\ enabled
     /\ call.pre.refresh_token \in ServerRefreshTokens
     /\ now < call.pre.config.refresh_expires)
    => call.result # NotLoggedIn

\* C18: login() and authenticate() agree on whether the refresh token in
\* memory is usable, at every time, the instant refresh_expires = now
\* included: login() without force_credentials attempts the silent renewal
\* exactly when authenticate() would not raise "You are not logged in".
C18_SameUsability ==
    silent_renewal(FALSE) <=> ~not_logged_in

\* C19: in every reachable state, if the access expiry in memory is in the
\* future then an access token is in memory and MLFLOW_TRACKING_TOKEN is
\* that token.
C19_ValidExpiryMeansPublishedToken ==
    access_expires > now => (access_token # None /\ environ = access_token)

====
